---- MODULE Spec2Model ----
(***************************************************************************)
(* The progress-streaming protocol of bin/server.js: a POST handler that   *)
(* records the tokens of a provider call in a key-value store, one record  *)
(* per conversation id, and a GET handler that reads the record back.      *)
(*                                                                         *)
(* Store calls are asynchronous: a set is issued by the code, lands on the *)
(* store at some later step, and nothing orders two sets that are in       *)
(* flight at the same time.  A get reads the store in one step.            *)
(***************************************************************************)
EXTENDS Integers, Sequences, FiniteSets, TLC

\* ------------------------------------------------------------------ bounds
\* onProgress invocations over the whole run (all handlers together)
MaxTokens == 3

\* ------------------------------------------------------- program constants
\* 10 * 60 seconds
TTLWindow == 600
DefaultCode == 503
InvalidCode == 400
NotFoundCode == 404

\* the POST requests of a run, and the requests that come before each
Handlers == {"h1", "h2"}
Before == [h1 |-> {}, h2 |-> {"h1"}]
ConvIds == {"c1", "c2"}
\* the conversation id of the first request (the ids are interchangeable)
FirstId == "c1"

\* the texts the provider passes to onProgress, per request, in arrival order
Texts == [h1 |-> <<"a", "b", "c", "d", "e">>, h2 |-> <<"v", "w", "x", "y", "z">>]
TokenOf(h, k) == Texts[h][k]

\* the payloads sendMessage resolves with
Results == {"r1"}
\* the errors sendMessage raises: without data, and with data {code, message}
Raised == {[code |-> 0, message |-> ""], [code |-> 429, message |-> "slow down"]}

\* ------------------------------------------------------------- the record
Fields == {"tokens", "done", "error", "result", "ttl"}
\* JavaScript false in the error and result fields
NoError == [code |-> 0, error |-> ""]
FalseVal == "#false"
\* a value with no field set; has names the fields a value carries
Blank == [has |-> {}, tokens |-> <<>>, done |-> FALSE, error |-> NoError,
          result |-> FalseVal, ttl |-> 0]

\* (mutant: the new conversation carries its tokens and ttl only)
NewConversation_TokensOnly(index, token, t) ==
    [Blank EXCEPT !.has = {"tokens", "ttl"},
                  !.tokens = <<[index |-> index, token |-> token]>>,
                  !.ttl = t + TTLWindow]

NewConversation(index, token, t) ==
    [has |-> Fields, tokens |-> <<[index |-> index, token |-> token]>>,
     done |-> FALSE, error |-> NoError, result |-> FalseVal, ttl |-> t + TTLWindow]

\* (mutant: the value carries a ttl field of its own)
OnlyTokens_ResetTTL(tokens) == [Blank EXCEPT !.has = {"tokens", "ttl"}, !.tokens = tokens]

OnlyTokens(tokens) == [Blank EXCEPT !.has = {"tokens"}, !.tokens = tokens]

ResultDone(r) == [Blank EXCEPT !.has = {"result", "done"}, !.result = r, !.done = TRUE]

ErrorValue(code, message) ==
    [Blank EXCEPT !.has = {"error"}, !.error = [code |-> code, error |-> message]]

\* ---------------------------------------------------------------- the store
\* (mutant: set replaces the stored item by props)
Upsert_Replace(old, props) == props

\* set(key, props) upserts: the fields of props replace those of the stored
\* item, the other stored fields stay
Upsert(old, props) ==
    [has    |-> old.has \cup props.has,
     tokens |-> IF "tokens" \in props.has THEN props.tokens ELSE old.tokens,
     done   |-> IF "done" \in props.has THEN props.done ELSE old.done,
     error  |-> IF "error" \in props.has THEN props.error ELSE old.error,
     result |-> IF "result" \in props.has THEN props.result ELSE old.result,
     ttl    |-> IF "ttl" \in props.has THEN props.ttl ELSE old.ttl]

KVSet(s, id, props) ==
    [x \in DOMAIN s \cup {id} |->
        IF x = id THEN Upsert(IF id \in DOMAIN s THEN s[id] ELSE Blank, props)
                  ELSE s[x]]

\* get(key) is null for a key with no item
Present(s, id) == id \in DOMAIN s

\* --------------------------------------------------------- the GET handler
\* the id of a response that carries id: ''
NoId == -1

JSONError(error) == "{code:" \o ToString(error.code) \o ",error:" \o error.error \o "}"

\* JSON.stringify of a result payload, or of false
JSONResult(rec) ==
    IF "result" \notin rec.has THEN "undefined"
    ELSE IF rec.result = FalseVal THEN "false"
    ELSE "{" \o rec.result \o "}"

\* (mutant: the tokens are taken in storage order)
SortByIndex_StorageOrder(tokens) == tokens

\* tokens.sort((a, b) => a.index - b.index): stable, ascending by index
RECURSIVE Insert(_, _)
Insert(sorted, e) ==
    IF sorted = <<>> THEN <<e>>
    ELSE IF sorted[Len(sorted)].index <= e.index THEN Append(sorted, e)
    ELSE Append(Insert(SubSeq(sorted, 1, Len(sorted) - 1), e), sorted[Len(sorted)])

RECURSIVE SortByIndex(_)
SortByIndex(tokens) ==
    IF tokens = <<>> THEN <<>>
    ELSE Insert(SortByIndex(SubSeq(tokens, 1, Len(tokens) - 1)), tokens[Len(tokens)])

\* for (let index = nextID; index < end; index++) data += tokens[index].token
RECURSIVE Data(_, _, _)
Data(tokens, index, end) ==
    IF index < end THEN tokens[index + 1].token \o Data(tokens, index + 1, end)
    ELSE ""

NotFound ==
    [event |-> "error", id |-> NoId,
     data |-> JSONError([code |-> NotFoundCode, error |-> "conversationID not Found!"])]

\* (mutant: no null check, conversation.props throws on a missing item)
GetResponse_NoNullCheck(s, id, nextID) ==
    IF ~Present(s, id) THEN [event |-> "throw", id |-> NoId, data |-> ""]
    ELSE [event |-> "none", id |-> Len(s[id].tokens),
          data |-> Data(SortByIndex(s[id].tokens), nextID, Len(s[id].tokens))]

\* the body the GET handler sends for conversationID id and nextID, read from s
GetResponse(s, id, nextID) ==
    IF ~Present(s, id) THEN NotFound
    ELSE LET rec == s[id] IN
         IF "error" \in rec.has /\ rec.error # NoError
         THEN [event |-> "error", id |-> NoId, data |-> JSONError(rec.error)]
         ELSE IF "done" \in rec.has /\ rec.done
         THEN [event |-> "result", id |-> NoId, data |-> JSONResult(rec)]
         ELSE IF "tokens" \notin rec.has
         THEN [event |-> "throw", id |-> NoId, data |-> ""]
         ELSE LET end == Len(rec.tokens) IN
              [event |-> "none", id |-> end,
               data |-> Data(SortByIndex(rec.tokens), nextID, end)]

VARIABLES
    store,      \* conversationKV: conversation id -> item, for the ids that have one
    now,        \* Math.floor(Date.now() / 1000)
    post,       \* per POST request: position, params, body and closure variables
    cb,         \* per POST request: its onProgress invocations, in arrival order,
                \* each with its position, its index and the value it sets
    spent,      \* onProgress invocations so far
    sent,       \* the GET request served from the store as it is, its response,
                \* and whether the request before it, no write between, was the same
    reader      \* a client polling PollId: the nextID it passes next, the text it has

vars == <<store, now, post, cb, spent, sent, reader>>

PollId == "c1"

\* no GET since the last write to the store
NoGet == [id |-> "", nextID |-> 0, body |-> [event |-> "", id |-> NoId, data |-> ""],
          again |-> FALSE]
NewReader == [next |-> 0, text |-> "", event |-> "none"]

NoOutcome == [kind |-> "none", result |-> "", code |-> 0, message |-> ""]

Init ==
    /\ store = [x \in {} |-> Blank]
    /\ now = 0
    /\ post = [h \in Handlers |->
                 [pc |-> "idle", id |-> "c1", stream |-> FALSE, message |-> FALSE,
                  outcome |-> NoOutcome, conversationStart |-> TRUE,
                  conversationCount |-> 0, terminal |-> Blank, writes |-> 0,
                  landed |-> FALSE, appended |-> FALSE, status |-> 0]]
    /\ cb = [h \in Handlers |-> <<>>]
    /\ spent = 0
    /\ sent = NoGet
    /\ reader = NewReader

\* ------------------------------------------------------- the POST handler
\* the request arrives, the requests before it having been answered and their
\* onProgress calls having finished (one live producer at a time); the handler
\* runs to its first await: a body without message throws before sendMessage
\* is called
Post(h, id, stream, message) ==
    /\ post[h].pc = "idle"
    /\ \A g \in Before[h] :
          /\ post[g].pc \in {"ended", "replied"}
          /\ \A k \in 1..Len(cb[g]) : cb[g][k].pc \in {"done", "threw"}
    /\ Before[h] = {} => id = FirstId
    /\ post' = [post EXCEPT ![h] =
                  [@ EXCEPT !.id = id, !.stream = stream, !.message = message,
                            !.pc = IF message THEN "sending" ELSE "settled",
                            !.outcome = IF message THEN NoOutcome
                                        ELSE [kind |-> "error", result |-> "",
                                              code |-> InvalidCode,
                                              message |-> "The message parameter is required."]]]
    /\ UNCHANGED <<store, now, cb, spent, sent, reader>>

\* (mutant: index is taken before conversationCount++)
OnProgress_IndexBeforeCount(h) ==
    /\ post[h].pc = "sending"
    /\ post[h].stream
    /\ spent < MaxTokens
    /\ now' = now + 1
    /\ LET index == post[h].conversationCount
           token == TokenOf(h, index + 1)
       IN /\ post' = [post EXCEPT ![h].conversationCount = index + 1,
                                  ![h].conversationStart = FALSE]
          /\ cb' = [cb EXCEPT ![h] = Append(@,
                      IF post[h].conversationStart
                      THEN [pc |-> "set", index |-> index,
                            conversation |-> NewConversation(index, token, now')]
                      ELSE [pc |-> "wait", index |-> index, conversation |-> Blank])]
    /\ spent' = spent + 1
    /\ UNCHANGED <<store, sent, reader>>

\* the provider calls onProgress(token), a second after the call before; the
\* call runs to its first await
OnProgress(h) ==
    /\ post[h].pc = "sending"
    /\ post[h].stream
    /\ spent < MaxTokens
    /\ now' = now + 1
    /\ LET index == post[h].conversationCount + 1
           token == TokenOf(h, index)
       IN /\ post' = [post EXCEPT ![h].conversationCount = index,
                                  ![h].conversationStart = FALSE]
          /\ cb' = [cb EXCEPT ![h] = Append(@,
                      IF post[h].conversationStart
                      THEN [pc |-> "set", index |-> index,
                            conversation |-> NewConversation(index, token, now')]
                      ELSE [pc |-> "wait", index |-> index, conversation |-> Blank])]
    /\ spent' = spent + 1
    /\ UNCHANGED <<store, sent, reader>>

\* (mutant: the wait creates the item it is waiting for)
WaitConversationKV_Creates(h, k) ==
    /\ k \in 1..Len(cb[h])
    /\ cb[h][k].pc = "wait"
    /\ ~Present(store, post[h].id)
    /\ store' = KVSet(store, post[h].id, OnlyTokens(<<>>))
    /\ UNCHANGED <<now, post, cb, spent, sent, reader>>

\* (mutant: the wait resolves with whatever get returned, null included)
WaitConversationKV_GivesUp(h, k) ==
    /\ k \in 1..Len(cb[h])
    /\ cb[h][k].pc = "wait"
    /\ cb' = [cb EXCEPT ![h][k] =
                IF Present(store, post[h].id) /\ "tokens" \in store[post[h].id].has
                THEN [@ EXCEPT !.pc = "set",
                               !.conversation =
                                   OnlyTokens(Append(store[post[h].id].tokens,
                                       [index |-> cb[h][k].index,
                                        token |-> TokenOf(h, k)]))]
                ELSE [@ EXCEPT !.pc = "threw"]]
    /\ UNCHANGED <<store, now, post, spent, sent, reader>>

\* a tick of waitConversationKV's interval in the k-th onProgress call: the
\* item, once there, resolves the wait, and the call pushes its token and
\* issues the set; tokens.push throws on an item without tokens
WaitConversationKV(h, k) ==
    /\ k \in 1..Len(cb[h])
    /\ cb[h][k].pc = "wait"
    /\ IF Present(store, post[h].id)
       THEN LET conversation == store[post[h].id] IN
            cb' = [cb EXCEPT ![h][k] =
                     IF "tokens" \in conversation.has
                     THEN [@ EXCEPT !.pc = "set",
                                    !.conversation =
                                        OnlyTokens(Append(conversation.tokens,
                                            [index |-> cb[h][k].index,
                                             token |-> TokenOf(h, k)]))]
                     ELSE [@ EXCEPT !.pc = "threw"]]
       ELSE UNCHANGED cb
    /\ UNCHANGED <<store, now, post, spent, sent, reader>>

\* the set of the k-th onProgress call lands
OnProgressSet(h, k) ==
    /\ k \in 1..Len(cb[h])
    /\ cb[h][k].pc = "set"
    /\ store' = KVSet(store, post[h].id, cb[h][k].conversation)
    /\ cb' = [cb EXCEPT ![h][k] = [@ EXCEPT !.pc = "done", !.conversation = Blank]]
    /\ sent' = NoGet
    /\ UNCHANGED <<now, post, spent, reader>>

\* the onProgress calls of h whose set has landed
Stored(h) == {k \in 1..Len(cb[h]) : cb[h][k].pc = "done"}

\* sendMessage resolves (appended: a token of the request was stored by then)
Resolve(h, r) ==
    /\ post[h].pc = "sending"
    /\ post' = [post EXCEPT ![h].pc = "settled",
                            ![h].appended = (Stored(h) # {}),
                            ![h].outcome = [kind |-> "result", result |-> r,
                                            code |-> 0, message |-> ""]]
    /\ UNCHANGED <<store, now, cb, spent, sent, reader>>

\* sendMessage raises
Raise(h, e) ==
    /\ post[h].pc = "sending"
    /\ post' = [post EXCEPT ![h].pc = "settled",
                            ![h].appended = (Stored(h) # {}),
                            ![h].outcome = [kind |-> "error", result |-> "",
                                            code |-> e.code, message |-> e.message]]
    /\ UNCHANGED <<store, now, cb, spent, sent, reader>>

\* (mutant: the code of the error is not looked at)
CodeOf_Default(outcome) == DefaultCode

\* error?.data?.code || 503 and error?.data?.message || `There was an error ...`
CodeOf(outcome) == IF outcome.code # 0 THEN outcome.code ELSE DefaultCode
MessageOf(outcome) ==
    IF outcome.message # "" THEN outcome.message
    ELSE "There was an error communicating with ChatGPT."

\* the value of the terminal set
TerminalValue(outcome) ==
    IF outcome.kind = "result" THEN ResultDone(outcome.result)
    ELSE ErrorValue(CodeOf(outcome), MessageOf(outcome))

\* (mutant: no return after the result write, the error write follows it)
Terminal_FallsThrough(h) ==
    /\ post[h].pc = "settled"
    /\ post' = [post EXCEPT ![h] =
                  IF @.stream
                  THEN [@ EXCEPT !.pc = "termSet",
                                 !.writes = IF post[h].outcome.kind = "result" THEN 2 ELSE 1,
                                 !.terminal = ErrorValue(CodeOf(post[h].outcome),
                                                         MessageOf(post[h].outcome))]
                  ELSE [@ EXCEPT !.pc = "replied", !.status = CodeOf(post[h].outcome)]]
    /\ UNCHANGED <<store, now, cb, spent, sent, reader>>

\* the handler after the try block: a streaming request issues its terminal
\* set, another one sends its reply
Terminal(h) ==
    /\ post[h].pc = "settled"
    /\ post' = [post EXCEPT ![h] =
                  IF @.stream
                  THEN [@ EXCEPT !.pc = "termSet", !.writes = @ + 1,
                                 !.terminal = TerminalValue(post[h].outcome)]
                  ELSE [@ EXCEPT !.pc = "replied",
                                 !.status = IF post[h].outcome.kind = "result" THEN 200
                                            ELSE CodeOf(post[h].outcome)]]
    /\ UNCHANGED <<store, now, cb, spent, sent, reader>>

\* the terminal set lands and returns
TerminalSet(h) ==
    /\ post[h].pc = "termSet"
    /\ store' = KVSet(store, post[h].id, post[h].terminal)
    /\ post' = [post EXCEPT ![h].pc = "termDone", ![h].landed = TRUE]
    /\ sent' = NoGet
    /\ UNCHANGED <<now, cb, spent, reader>>

\* (mutant: the set is not awaited)
End_NoAwait(h) ==
    /\ post[h].pc \in {"termSet", "termDone"}
    /\ post' = [post EXCEPT ![h].pc = "ended", ![h].status = 200]
    /\ UNCHANGED <<store, now, cb, spent, sent, reader>>

\* await nextTick(); return reply.raw.end()
End(h) ==
    /\ post[h].pc = "termDone"
    /\ post' = [post EXCEPT ![h].pc = "ended", ![h].status = 200]
    /\ UNCHANGED <<store, now, cb, spent, sent, reader>>

\* ---------------------------------------------------------------- readers
\* (mutant: the GET takes the tokens it delivers out of the record)
Get_Consumes(id, nextID) ==
    /\ reader = NewReader
    /\ sent' = [id |-> id, nextID |-> nextID, body |-> GetResponse(store, id, nextID),
                again |-> (sent # NoGet /\ sent.id = id /\ sent.nextID = nextID)]
    /\ store' = IF Present(store, id) /\ "tokens" \in store[id].has
                THEN KVSet(store, id, OnlyTokens(SubSeq(store[id].tokens, 1,
                         IF nextID < Len(store[id].tokens) THEN nextID
                         ELSE Len(store[id].tokens))))
                ELSE store
    /\ UNCHANGED <<now, post, cb, spent, reader>>

\* GET /conversation/id/nextID.  A GET changes nothing on the server, so a run
\* has the probing client of this action or the polling client of Poll
Get(id, nextID) ==
    /\ reader = NewReader
    /\ sent' = [id |-> id, nextID |-> nextID, body |-> GetResponse(store, id, nextID),
                again |-> (sent # NoGet /\ sent.id = id /\ sent.nextID = nextID)]
    /\ UNCHANGED <<store, now, post, cb, spent, reader>>

\* the polling client: GET /conversation/PollId/next, next being the id of its
\* previous partial response; it stops at a result or an error of the record
Poll ==
    /\ sent = NoGet
    /\ reader.event = "none"
    /\ LET r == GetResponse(store, PollId, reader.next) IN
       reader' = IF r = NotFound THEN reader
                 ELSE IF r.event = "none"
                 THEN [next |-> r.id, text |-> reader.text \o r.data, event |-> "none"]
                 ELSE [reader EXCEPT !.event = r.event]
    /\ UNCHANGED <<store, now, post, cb, spent, sent>>

Next ==
    \/ \E h \in Handlers, id \in ConvIds, stream \in BOOLEAN, message \in BOOLEAN :
          Post(h, id, stream, message)
    \/ \E h \in Handlers : OnProgress(h)
    \/ \E h \in Handlers, k \in 1..MaxTokens : WaitConversationKV(h, k)
    \/ \E h \in Handlers, k \in 1..MaxTokens : OnProgressSet(h, k)
    \/ \E h \in Handlers, r \in Results : Resolve(h, r)
    \/ \E h \in Handlers, e \in Raised : Raise(h, e)
    \/ \E h \in Handlers : Terminal(h)
    \/ \E h \in Handlers : TerminalSet(h)
    \/ \E h \in Handlers : End(h)
    \/ \E id \in ConvIds, nextID \in 0..MaxTokens : Get(id, nextID)
    \/ Poll

Spec == Init /\ [][Next]_vars

\* the server alone, with the scheduling the runtime guarantees: a handler
\* whose awaited promise has settled runs on
ServerNext ==
    \/ \E h \in Handlers, id \in ConvIds, stream \in BOOLEAN, message \in BOOLEAN :
          Post(h, id, stream, message)
    \/ \E h \in Handlers : OnProgress(h)
    \/ \E h \in Handlers, k \in 1..MaxTokens : WaitConversationKV(h, k)
    \/ \E h \in Handlers, k \in 1..MaxTokens : OnProgressSet(h, k)
    \/ \E h \in Handlers, r \in Results : Resolve(h, r)
    \/ \E h \in Handlers, e \in Raised : Raise(h, e)
    \/ \E h \in Handlers : Terminal(h)
    \/ \E h \in Handlers : TerminalSet(h)
    \/ \E h \in Handlers : End(h)

FairSpec ==
    /\ Init
    /\ [][ServerNext]_vars
    /\ \A h \in Handlers : WF_vars(Terminal(h)) /\ WF_vars(End(h))

\* the server alone, the interval of every waitConversationKV firing again
\* and again
WaiterSpec ==
    /\ Init
    /\ [][ServerNext]_vars
    /\ \A h \in Handlers, k \in 1..MaxTokens : WF_vars(WaitConversationKV(h, k))

\* ------------------------------------------------------------ the claims
\* request h is the only one so far to use its conversation id
Sole(h) == \A g \in Handlers \ {h} : post[g].pc = "idle" \/ post[g].id # post[h].id

Streaming(h) == post[h].pc # "idle" /\ post[h].stream

\* every onProgress call of h so far has had its set land
AllStored(h) == \A k \in 1..Len(cb[h]) : cb[h][k].pc = "done"

\* t1 + ... + tn of request h
RECURSIVE Tokens(_, _)
Tokens(h, n) == IF n = 0 THEN "" ELSE Tokens(h, n - 1) \o TokenOf(h, n)

Partial(n, data) == [event |-> "none", id |-> n, data |-> data]

\* C1: with one producer on id c, a GET /conversation/c/0 made once all n >= 1
\* token writes have completed and before the terminal write returns id = n
\* and data = t1 + ... + tn, for every interleaving of the callbacks' store
\* reads and writes.
C1_FullConcatenation ==
    \A h \in Handlers :
        ( /\ Streaming(h) /\ Sole(h)
          /\ Len(cb[h]) >= 1 /\ AllStored(h)
          /\ ~post[h].landed
          /\ sent # NoGet /\ sent.id = post[h].id /\ sent.nextID = 0 )
        => sent.body = Partial(Len(cb[h]), Tokens(h, Len(cb[h])))

\* C2: the polling client of a conversation with one producer has, at every
\* point, received exactly t1 + ... + tk, k being the last id it was returned:
\* no token twice, none skipped.
C2_PollerGapless ==
    \A h \in Handlers :
        (Streaming(h) /\ Sole(h) /\ post[h].id = PollId /\ reader.event = "none")
        => reader.text = Tokens(h, reader.next)

\* C3: once the terminal write of a streaming request (the only one on its id)
\* has landed, every GET on the id returns the result or the error variant,
\* never a partial response.
C3_TerminalStays ==
    \A h \in Handlers :
        (Streaming(h) /\ Sole(h) /\ post[h].landed /\ sent # NoGet /\ sent.id = post[h].id)
        => sent.body.event \in {"result", "error"}

\* the code and message a failed request reports
ReportedCode(h) == IF post[h].outcome.code = 0 THEN 503 ELSE post[h].outcome.code
ReportedMessage(h) ==
    IF post[h].outcome.message = "" THEN "There was an error communicating with ChatGPT."
    ELSE post[h].outcome.message
ErrorBody(h) ==
    [event |-> "error", id |-> NoId,
     data |-> "{code:" \o ToString(ReportedCode(h)) \o ",error:" \o ReportedMessage(h) \o "}"]

Invalid(h) == post[h].pc # "idle" /\ ~post[h].message

Finished(h) == \A k \in 1..Len(cb[h]) : cb[h][k].pc \in {"done", "threw"}

\* h is the last request on its id
Latest(h) ==
    \A g \in Handlers \ {h} :
        (post[g].pc # "idle" /\ post[g].id = post[h].id) => g \in Before[h]

\* C6: once the terminal write of a streaming request that resolved with r has
\* landed, a GET on its id returns {event: 'result', data: JSON of r}, whatever
\* record the id had before the request.  (Stated for the last request on
\* the id, with none of its onProgress sets in flight and, if it had tokens,
\* one of them stored before the provider resolved.)
C6_ResultReplaces ==
    \A h \in Handlers :
        ( /\ Streaming(h) /\ post[h].outcome.kind = "result"
          /\ post[h].landed /\ Finished(h) /\ Latest(h)
          /\ Len(cb[h]) = 0 \/ post[h].appended
          /\ sent # NoGet /\ sent.id = post[h].id )
        => sent.body = [event |-> "result", id |-> NoId,
                        data |-> "{" \o post[h].outcome.result \o "}"]

\* C7: a GET on an id that has no record returns the 404 payload and leaves
\* the id without a record.
C7_NotFound ==
    [][ \A id \in ConvIds, nextID \in 0..MaxTokens :
          (Get(id, nextID) /\ ~Present(store, id))
          => /\ sent'.body = [event |-> "error", id |-> NoId,
                               data |-> "{code:404,error:conversationID not Found!}"]
             /\ ~Present(store', id) ]_vars

C7_Witness ==
    /\ sent.id = "c2" /\ ~Present(store, "c2") /\ Present(store, "c1")
    /\ sent.body.event = "error" /\ sent.body.data = "{code:404,error:conversationID not Found!}"

\* C8: a streaming request whose provider call resolved or raised issues
\* exactly one terminal write, {result, done: true} after a result and
\* {error} after an error, and none before the call has resolved or raised.
C8_OneTerminalWrite ==
    /\ [](\A h \in Handlers :
            post[h].stream =>
              /\ post[h].writes <= 1
              /\ post[h].pc \in {"idle", "sending", "settled"} => post[h].writes = 0
              /\ post[h].pc \in {"termSet", "termDone", "ended"} =>
                    /\ post[h].writes = 1
                    /\ post[h].outcome.kind \in {"result", "error"}
                    /\ post[h].outcome.kind = "result" =>
                          /\ post[h].terminal.has = {"result", "done"}
                          /\ post[h].terminal.result = post[h].outcome.result
                          /\ post[h].terminal.done
                    /\ post[h].outcome.kind = "error" =>
                          /\ post[h].terminal.has = {"error"}
                          /\ post[h].terminal.error.code = ReportedCode(h))
    /\ \A h \in Handlers :
          (post[h].stream /\ post[h].pc = "settled") ~> (post[h].writes = 1)

C8_Witness ==
    \E h \in Handlers :
        /\ Streaming(h) /\ post[h].message /\ post[h].outcome.kind = "result"
        /\ Len(cb[h]) >= 1 /\ post[h].pc = "ended" /\ post[h].writes = 1

\* C9: the response of a streaming request is ended only after its terminal
\* write has returned, and once that write has returned it is ended, also
\* with onProgress calls of the request still waiting or writing.
C9_EndsAfterTerminalWrite ==
    /\ [](\A h \in Handlers : (post[h].stream /\ post[h].pc = "ended") => post[h].landed)
    /\ \A h \in Handlers :
          (post[h].stream /\ post[h].landed) ~> (post[h].pc = "ended")

C9_Witness ==
    \E h \in Handlers :
        /\ Streaming(h) /\ post[h].pc = "ended" /\ post[h].landed
        /\ Len(cb[h]) >= 2 /\ cb[h][2].pc = "wait"

\* C10: a GET, a poll of the polling client and a tick of waitConversationKV
\* leave the store as it is: no record created, changed or deleted.
C10_ReadersLeaveStore ==
    [][ ( \/ \E id \in ConvIds, nextID \in 0..MaxTokens : Get(id, nextID)
          \/ Poll
          \/ \E h \in Handlers, k \in 1..MaxTokens : WaitConversationKV(h, k) )
        => store' = store ]_vars

C10_Witness ==
    /\ sent # NoGet /\ Present(store, sent.id) /\ sent.body.event = "none"
    /\ \E h \in Handlers : Len(cb[h]) >= 2 /\ cb[h][2].pc = "set"
                             /\ ~Present(store, IF post[h].id = "c1" THEN "c2" ELSE "c1")

\* a record a GET answers with a partial response: no error, not done
InProgress(rec) ==
    /\ "tokens" \in rec.has
    /\ ~("error" \in rec.has /\ rec.error # NoError)
    /\ ~("done" \in rec.has /\ rec.done)

\* the token texts of a sequence of entries, joined
RECURSIVE Concat(_)
Concat(entries) ==
    IF entries = <<>> THEN ""
    ELSE Concat(SubSeq(entries, 1, Len(entries) - 1)) \o entries[Len(entries)].token

\* the entries in ascending index order (entries of equal index in storage
\* order): the entry at i has as many places before it as there are entries
\* that go before it
Rank(tokens, i) ==
    1 + Cardinality({j \in 1..Len(tokens) :
                       \/ tokens[j].index < tokens[i].index
                       \/ tokens[j].index = tokens[i].index /\ j < i})
Ascending(tokens) ==
    [p \in 1..Len(tokens) |-> tokens[CHOOSE i \in 1..Len(tokens) : Rank(tokens, i) = p]]

\* the stored indices are 1, 2, ..., m
Contiguous(tokens) == {tokens[i].index : i \in 1..Len(tokens)} = 1..Len(tokens)

\* C11 as stated: for an in-progress record holding m entries, a GET with
\* nextID = lastIndex returns id = m and data = the token texts, in ascending
\* index order, of all entries with index >= lastIndex.
C11_FromIndex ==
    (sent # NoGet /\ Present(store, sent.id) /\ InProgress(store[sent.id]))
    => LET tokens == store[sent.id].tokens IN
       sent.body = Partial(Len(tokens),
                           Concat(SelectSeq(Ascending(tokens),
                                            LAMBDA e : e.index >= sent.nextID)))

\* C11, amended: for an in-progress record holding m entries, a GET with
\* nextID = lastIndex returns id = m and data = the token texts of the entries
\* from place lastIndex + 1 to place m of the list in ascending index order,
\* '' for lastIndex >= m; on a record whose indices are 1..m these are the
\* entries with index > lastIndex, and with lastIndex = 0 all m tokens.
C11_FromPosition ==
    (sent # NoGet /\ Present(store, sent.id) /\ InProgress(store[sent.id]))
    => LET tokens == store[sent.id].tokens
           m == Len(tokens)
       IN /\ sent.body.event = "none"
          /\ sent.body.id = m
          /\ sent.body.data = Concat(SubSeq(Ascending(tokens), sent.nextID + 1, m))
          /\ Contiguous(tokens) =>
                sent.body.data = Concat(SelectSeq(Ascending(tokens),
                                                  LAMBDA e : e.index > sent.nextID))
          /\ sent.nextID = 0 => sent.body.data = Concat(Ascending(tokens))

\* a GET at nextID 1 on a record stored out of index order
C11_Witness ==
    /\ sent # NoGet /\ Present(store, sent.id) /\ InProgress(store[sent.id])
    /\ sent.nextID = 1
    /\ Len(store[sent.id].tokens) = 3
    /\ store[sent.id].tokens[2].index = 3
    /\ sent.body = Partial(3, TokenOf("h1", 2) \o TokenOf("h1", 3))

\* C12: a GET with the id and nextID of the GET before it, no store write
\* between the two, returns the response of the GET before it, whether the
\* record is absent, in progress, done or in error, and for every nextID.
C12_Idempotent ==
    [][ \A id \in ConvIds, nextID \in 0..MaxTokens :
          (Get(id, nextID) /\ sent # NoGet /\ sent.id = id /\ sent.nextID = nextID)
          => sent'.body = sent.body ]_vars

\* a repeated GET at nextID 1 on an in-progress record of two tokens, the
\* other id absent
C12_Witness ==
    /\ sent.again /\ sent.nextID = 1
    /\ Present(store, sent.id) /\ InProgress(store[sent.id])
    /\ Len(store[sent.id].tokens) = 2
    /\ sent.body.event = "none" /\ sent.body.data # ""
    /\ \E id \in ConvIds : ~Present(store, id)

\* C13: in every streaming request, an onProgress call after the first issues
\* its set only with a token list that holds the first token of the request,
\* and no such set lands before the initializing set of the request has.
C13_AppendAfterInit ==
    \A h \in Handlers : \A k \in 2..Len(cb[h]) :
        /\ cb[h][k].pc = "set" =>
              \E i \in 1..Len(cb[h][k].conversation.tokens) :
                  cb[h][k].conversation.tokens[i] = [index |-> 1, token |-> TokenOf(h, 1)]
        /\ cb[h][k].pc = "done" => cb[h][1].pc = "done"

\* the entries of a token list
Entries(tokens) == {tokens[i] : i \in 1..Len(tokens)}

\* C14: while the record of a request (the only one on its id) is in
\* progress, the landing of an append of the request keeps every entry
\* (index, token) the record held before it.
C14_AppendsKeepTokens ==
    [][ \A h \in Handlers, k \in 2..MaxTokens :
          ( /\ OnProgressSet(h, k)
            /\ Sole(h)
            /\ Present(store, post[h].id)
            /\ InProgress(store[post[h].id]) )
          => Entries(store[post[h].id].tokens) \subseteq Entries(store'[post[h].id].tokens) ]_vars

\* C15: in a streaming request the first onProgress call, and no other, takes
\* the initializing path: without a wait on the store it issues the set of
\* {tokens: [(1, t1)], done: false, error: false, result: false, ttl: now +
\* 10 minutes}, and when that set lands the record of the id holds exactly
\* that token list and is in progress, whatever the id held before.
C15_FirstCallInitializes ==
    [][ \A h \in Handlers :
          /\ OnProgress(h) =>
                LET k == Len(cb'[h]) IN
                /\ k = Len(cb[h]) + 1
                /\ IF k = 1
                   THEN /\ cb'[h][1].pc = "set"
                        /\ cb'[h][1].conversation.has = Fields
                        /\ cb'[h][1].conversation.tokens =
                              <<[index |-> 1, token |-> TokenOf(h, 1)]>>
                        /\ cb'[h][1].conversation.done = FALSE
                        /\ cb'[h][1].conversation.error = NoError
                        /\ cb'[h][1].conversation.ttl = now' + TTLWindow
                   ELSE /\ cb'[h][k].pc = "wait"
                        /\ cb'[h][k].conversation.has = {}
          /\ OnProgressSet(h, 1) =>
                LET rec == store'[post[h].id] IN
                /\ rec.has = Fields
                /\ rec.tokens = <<[index |-> 1, token |-> TokenOf(h, 1)]>>
                /\ rec.done = FALSE /\ rec.error = NoError
                /\ rec.ttl = cb[h][1].conversation.ttl
                /\ InProgress(rec)
                /\ GetResponse(store', post[h].id, 0) = Partial(1, TokenOf(h, 1)) ]_vars

\* the initializing set of a request has landed on the record an earlier
\* request left in error under the id, and a second call is waiting
C15_Witness ==
    \E h \in Handlers : \E g \in Before[h] :
        /\ post[g].id = post[h].id /\ post[g].landed /\ post[g].outcome.kind = "error"
        /\ Len(cb[h]) = 2 /\ cb[h][1].pc = "done" /\ cb[h][2].pc = "wait"
        /\ InProgress(store[post[h].id])
        /\ store[post[h].id].tokens = <<[index |-> 1, token |-> TokenOf(h, 1)]>>

\* the token entries the calls of h have put into a set or into the store
Written(h) ==
    UNION ({Entries(cb[h][k].conversation.tokens) : k \in 1..Len(cb[h])}
           \cup {Entries(store[id].tokens) : id \in DOMAIN store})

\* C16: in a streaming request the k-th onProgress call, in arrival order,
\* has index k, whatever the order in which the calls' waits and sets
\* complete: the indices of a request are 1, 2, ... without repeats, each
\* request counts from 1, and a token is written with the index of its call.
C16_IndexIsArrivalOrder ==
    \A h \in Handlers :
        /\ post[h].conversationCount = Len(cb[h])
        /\ \A k \in 1..Len(cb[h]) : cb[h][k].index = k
        /\ \A j, k \in 1..Len(cb[h]) : j < k => cb[h][j].index < cb[h][k].index
        /\ \A e \in Written(h) :
              \E g \in Handlers : \E k \in 1..Len(cb[g]) :
                  e = [index |-> k, token |-> TokenOf(g, k)]

\* two calls of the first request, and the first call of the second request
\* on the same id, its set landed
C16_Witness ==
    /\ Len(cb["h1"]) = 2 /\ Len(cb["h2"]) = 1
    /\ cb["h1"][2].index = 2 /\ cb["h2"][1].index = 1
    /\ post["h1"].id = post["h2"].id
    /\ cb["h2"][1].pc = "done"

\* C17: every record in the store carries a ttl, whichever write created it.
C17_EveryRecordHasTTL ==
    \A id \in DOMAIN store : "ttl" \in store[id].has /\ store[id].ttl > 0

\* the ttl of the initializing write of h: its first onProgress call comes a
\* second after the last call of the requests before it
InitTTL(h) ==
    LET prior == UNION {DOMAIN cb[g] : g \in Before[h]} IN
    Cardinality(prior) + 1 + TTLWindow

\* C18: the landing of an append (the set of an onProgress call after the
\* first) changes the token list only: ttl, done, result and error of the
\* record are what they were before it, the ttl is there, and for a request
\* that is the only one on its id it is the ttl of the request's initializing
\* write.
C18_AppendChangesTokensOnly ==
    [][ \A h \in Handlers, k \in 2..MaxTokens :
          OnProgressSet(h, k) =>
            LET old == store[post[h].id]
                new == store'[post[h].id]
            IN /\ Present(store, post[h].id)
               /\ new.has = old.has /\ "ttl" \in new.has
               /\ new.ttl = old.ttl
               /\ new.done = old.done
               /\ new.result = old.result
               /\ new.error = old.error
               /\ Sole(h) => new.ttl = InitTTL(h) ]_vars

\* an append has landed on a record that is done: the result and the ttl of
\* the initializing write are there
C18_Witness ==
    \E h \in Handlers :
        /\ Sole(h) /\ post[h].landed /\ ~post[h].appended
        /\ Len(cb[h]) = 2 /\ cb[h][2].pc = "done"
        /\ store[post[h].id].done /\ store[post[h].id].result = "r1"
        /\ Len(store[post[h].id].tokens) = 2
        /\ store[post[h].id].ttl = InitTTL(h)

ErrorPresent(rec) == "error" \in rec.has /\ rec.error # NoError
IsDone(rec) == "done" \in rec.has /\ rec.done
ResultPresent(rec) == "result" \in rec.has /\ rec.result # FalseVal

\* C19: every stored record is in exactly one of the states in progress,
\* done with result, error: none is done and carries an error, and a result
\* is there exactly when the record is done and carries no error; also with
\* successive requests on one conversation id.
C19_OneState ==
    \A id \in DOMAIN store :
        LET rec == store[id] IN
        /\ ~(IsDone(rec) /\ ErrorPresent(rec))
        /\ ResultPresent(rec) <=> (IsDone(rec) /\ ~ErrorPresent(rec))

\* the k-th onProgress call of h is in waitConversationKV
Waiting(h, k) == k \in DOMAIN cb[h] /\ cb[h][k].pc = "wait"

\* C20: waitConversationKV completes only on a poll that finds a record under
\* its id, and with that record: as long as there is none it stays suspended;
\* its interval firing again and again, it completes once the record is
\* there.
C20_WaiterReturnsRecord ==
    /\ [][ \A h \in Handlers, k \in 1..MaxTokens :
             (Waiting(h, k) /\ cb'[h][k].pc # "wait")
             => /\ Present(store, post[h].id)
                /\ cb'[h][k].pc = "set" =>
                      cb'[h][k].conversation.tokens =
                          Append(store[post[h].id].tokens,
                                 [index |-> k, token |-> TokenOf(h, k)])
                /\ cb'[h][k].pc = "threw" => "tokens" \notin store[post[h].id].has ]_vars
    /\ \A h \in Handlers, k \in 1..MaxTokens :
          (Waiting(h, k) /\ Present(store, post[h].id)) ~> ~Waiting(h, k)

\* the wait of the second call of a request on a fresh id has completed with
\* the record of the first token; the third call is waiting
C20_Witness ==
    \E h \in Handlers :
        /\ Sole(h) /\ Len(cb[h]) = 3 /\ cb[h][2].pc = "set"
        /\ cb[h][2].conversation.tokens =
              <<[index |-> 1, token |-> TokenOf(h, 1)], [index |-> 2, token |-> TokenOf(h, 2)]>>
        /\ Waiting(h, 3)
====
